---- MODULE Spec2Model ----
(***************************************************************************)
(* Price-series normalisation and alignment of the Icarus ticker tracker.  *)
(*                                                                         *)
(* The chart components are pure functions of their props.  Init draws the *)
(* props from bounded sets, the actions apply the components' code.        *)
(*                                                                         *)
(* Representation choices:                                                 *)
(*  - A date is an integer on a time line.  The code compares ISO date     *)
(*    strings with >= and localeCompare/sort, which for ISO dates is the   *)
(*    chronological order, so integer comparison models it.  One unit is   *)
(*    one calendar month where the code shifts dates (setMonth,            *)
(*    setFullYear); the day of the month is not modelled.                  *)
(*  - A close is a positive integer number of cents.  An indexed value is  *)
(*    an integer number of hundredths (10000 is 100.00).  The quotient     *)
(*    price / baseline * 100 is taken exactly and toFixed(2) rounds it     *)
(*    half up; binary floating-point error is not modelled.                *)
(*  - `undefined` closes and baselines are the integer 0: the code only    *)
(*    tests them for truthiness, where undefined and 0 behave alike.       *)
(***************************************************************************)
EXTENDS Integers, Sequences, FiniteSets

VARIABLES
    tickers,          \* MultiTickerChartProps.tickers: sequence of TickerData
    benchmark,        \* MultiTickerChartProps.benchmark: sequence of PricePoint
    visibleTickers,   \* MultiTickerChartProps.visibleTickers: set of symbols
    timeRange,        \* MultiTickerChartProps.timeRange
    now,              \* the date new Date() yields inside getStartDate
    pc,               \* which component call has completed
    startDate,        \* result of the last getStartDate call (NoDate before)
    baselinePrices,   \* the local Map baselinePrices after the first useMemo
    benchmarkBaseline,\* the local benchmarkBaseline (0 is undefined)
    chartData,        \* rows returned by the first useMemo
    mentionMarkers,   \* markers returned by the first useMemo
    performances,     \* entries returned by the second useMemo
    view,             \* what the component returns: "nodata" or "chart"
    component,        \* the component the props are for
    tickerPerf,       \* PriceChart: tickerPerf
    spyPerf,          \* PriceChart: spyPerf
    alpha,            \* PriceChart: alpha
    backend,          \* which lib/db the routes run on: "memory" or "postgres"
    apiKey,           \* process.env.ICARUS_API_KEY (Unset when not configured)
    today,            \* the server's current date
    tickerTable,      \* the tickers map / table: symbol -> ticker record
    priceTable,       \* the priceHistory map / price_history table, per symbol
    benchmarkTable,   \* benchmarkHistory / the benchmark_history table
    reqs,             \* POST /api/tickers requests suspended at an await
    served,           \* number of requests received so far
    lastRequest       \* the last request received and its response (0: pending)

chartVars == <<tickers, benchmark, visibleTickers, timeRange, now, pc, startDate,
               baselinePrices, benchmarkBaseline, chartData, mentionMarkers,
               performances, view, component, tickerPerf, spyPerf, alpha>>

storeVars == <<backend, apiKey, today, tickerTable, priceTable, benchmarkTable,
               reqs, served, lastRequest>>

vars == <<chartVars, storeVars>>

----------------------------------------------------------------------------
(* Bounds *)

MaxDate == 3
MaxPoints == 3

(* Program constants *)

MonthsPerYear == 12
BenchmarkKey == "SPY"

Symbols == {"A", BenchmarkKey}
SymbolSeq == <<"A", BenchmarkKey>>
Dates == 1..MaxDate
Prices == {2, 3}
Nows == {MaxDate + 1}
TimeRanges == {"1M", "3M", "6M", "1Y", "YTD", "ALL", "SINCE_MENTION"}
NoDate == -1000

----------------------------------------------------------------------------
(* Generic helpers *)

Min(S) == CHOOSE x \in S : \A y \in S : x <= y
Max(S) == CHOOSE x \in S : \A y \in S : x >= y

RECURSIVE SortedSeq(_)
SortedSeq(S) == IF S = {} THEN <<>> ELSE <<Min(S)>> \o SortedSeq(S \ {Min(S)})

----------------------------------------------------------------------------
(* Props *)

\* A price history is a sequence of PricePoint ascending by date with one
\* point per date, as the store returns it (ORDER BY date ASC, UNIQUE(symbol,
\* date); the in-memory store sorts on insert).
HistoryOf(f) ==
    LET ds == SortedSeq({d \in Dates : f[d] # 0})
    IN  [i \in 1..Len(ds) |-> [date |-> ds[i], close |-> f[ds[i]]]]

Histories == {HistoryOf(f) : f \in [Dates -> Prices \cup {0}]}

\* The tickers prop: one TickerData per supplied symbol, in SymbolSeq order
\* (the store keys tickers by symbol, so symbols are distinct).
TickersOf(S, md, hs) ==
    LET ss == SelectSeq(SymbolSeq, LAMBDA s : s \in S)
    IN  [i \in 1..Len(ss) |->
            [symbol |-> ss[i], mentionDate |-> md[ss[i]], priceHistory |-> hs[ss[i]]]]

RECURSIVE PointCount(_)
PointCount(ts) ==
    IF ts = <<>> THEN 0
    ELSE Len(Head(ts).priceHistory) + PointCount(Tail(ts))

SymbolsOf(ts) == {ts[i].symbol : i \in DOMAIN ts}

----------------------------------------------------------------------------
(* getStartDate *)

\* Array.prototype.reduce over mention dates, keeping the smaller one.
RECURSIVE ReduceEarliest(_, _)
ReduceEarliest(ts, min) ==
    IF ts = <<>> THEN min
    ELSE ReduceEarliest(Tail(ts),
            IF Head(ts).mentionDate < min THEN Head(ts).mentionDate ELSE min)

\* Mutant: only the visible tickers take part in the earliest mention date.
VisibleTickerDataOnlyVisible(ts) ==
    SelectSeq(ts, LAMBDA t : t.symbol \in visibleTickers)

\* tickers.filter(t => true): every supplied ticker takes part.
VisibleTickerData(ts) == SelectSeq(ts, LAMBDA t : TRUE)

getStartDate(tr, ts, nw) ==
    CASE tr = "1M" -> nw - 1
      [] tr = "3M" -> nw - 3
      [] tr = "6M" -> nw - 6
      [] tr = "1Y" -> nw - MonthsPerYear
      [] tr = "YTD" -> nw - (nw % MonthsPerYear)
      [] tr \in {"ALL", "SINCE_MENTION"} ->
            IF Len(VisibleTickerData(ts)) = 0 THEN nw
            ELSE ReduceEarliest(VisibleTickerData(ts),
                                VisibleTickerData(ts)[1].mentionDate)
      [] OTHER -> nw

----------------------------------------------------------------------------
(* MultiTickerChart: first useMemo (chartData, mentionMarkers) *)

EmptyMap == [k \in {} |-> 0]

DatesOf(h) == {h[i].date : i \in DOMAIN h}

\* Mutant: the filter drops the points dated on the start date itself.
FilterFromStrict(h, d) == SelectSeq(h, LAMBDA p : p.date > d)

\* history.filter(p => p.date >= startDate)
FilterFrom(h, d) == SelectSeq(h, LAMBDA p : p.date >= d)

\* Mutant: an exact-date lookup instead of the first point on or after d.
FindCloseExact(h, d) ==
    LET I == {i \in DOMAIN h : h[i].date = d}
    IN  IF I = {} THEN 0 ELSE h[CHOOSE i \in I : \A j \in I : i <= j].close

\* history.find(p => p.date >= d)?.close, 0 for undefined
FindCloseFrom(h, d) ==
    LET I == {i \in DOMAIN h : h[i].date >= d}
    IN  IF I = {} THEN 0 ELSE h[Min(I)].close

\* new Map(history.map(p => [p.date, p.close])): the last point of a date wins
PriceMap(h) ==
    [d \in DatesOf(h) |-> h[Max({i \in DOMAIN h : h[i].date = d})].close]

\* Map.get(date), 0 for undefined
MapGet(m, k) == IF k \in DOMAIN m THEN m[k] ELSE 0

\* indexes of the tickers that pass visibleTickers.has(t.symbol)
VisibleIdx(ts, vis) == {i \in DOMAIN ts : ts[i].symbol \in vis}

AllDates(ts, bm, vis, sd) ==
    UNION {DatesOf(FilterFrom(ts[i].priceHistory, sd)) : i \in VisibleIdx(ts, vis)}
    \cup DatesOf(FilterFrom(bm, sd))

\* Mutant: the dates are pushed to an array, entity after entity and then the
\* benchmark, neither deduplicated nor sorted.
RECURSIVE PushedDates(_, _, _)
PushedDates(ts, vis, sd) ==
    IF ts = <<>> THEN <<>>
    ELSE (IF Head(ts).symbol \in vis
          THEN [i \in 1..Len(FilterFrom(Head(ts).priceHistory, sd)) |->
                    FilterFrom(Head(ts).priceHistory, sd)[i].date]
          ELSE <<>>)
         \o PushedDates(Tail(ts), vis, sd)

SortedDatesPushed(ts, bm, vis, sd) ==
    PushedDates(ts, vis, sd)
    \o [i \in 1..Len(FilterFrom(bm, sd)) |-> FilterFrom(bm, sd)[i].date]

\* Array.from(allDates).sort()
SortedDates(ts, bm, vis, sd) == SortedSeq(AllDates(ts, bm, vis, sd))

\* tickerMaps.set(t.symbol, priceMap) for each visible ticker, later sets win
TickerMaps(ts, vis) ==
    [s \in {ts[i].symbol : i \in VisibleIdx(ts, vis)} |->
        PriceMap(ts[Max({i \in VisibleIdx(ts, vis) : ts[i].symbol = s})].priceHistory)]

\* Mutant: every range takes the ticker's own mention date as baseline date.
BaselineDateOwnMention(t, sm, sd) == t.mentionDate

BaselineDate(t, sm, sd) == IF sm THEN t.mentionDate ELSE sd

Baseline(t, sm, sd) == FindCloseFrom(t.priceHistory, BaselineDate(t, sm, sd))

\* if (baseline) baselinePrices.set(t.symbol, baseline)
BaselinePrices(ts, vis, sm, sd) ==
    LET idx == {i \in VisibleIdx(ts, vis) : Baseline(ts[i], sm, sd) # 0}
    IN  [s \in {ts[i].symbol : i \in idx} |->
            Baseline(ts[Max({i \in idx : ts[i].symbol = s})], sm, sd)]

\* markers.push({symbol, date: t.mentionDate, value: 100, color})
Markers(ts, vis, sm, sd) ==
    LET shown == SelectSeq(ts, LAMBDA t :
                    t.symbol \in vis /\ sm /\ t.mentionDate >= sd)
    IN  [i \in 1..Len(shown) |->
            [symbol |-> shown[i].symbol, date |-> shown[i].mentionDate, value |-> 10000]]

\* Mutant: the benchmark is based on its first point, whatever the start date.
BenchmarkBaselineFirstPoint(bm, sd) == IF Len(bm) = 0 THEN 0 ELSE bm[1].close

BenchmarkBaseline(bm, sd) == FindCloseFrom(bm, sd)

\* Mutant: the quotient is truncated to two decimals instead of rounded, and
\* taken as a change from the baseline instead of a level.
IndexedChange(price, baseline) == ((price - baseline) * 10000) \div baseline

\* Number(((price / baseline) * 100).toFixed(2)), in hundredths
Indexed(price, baseline) == (price * 20000 + baseline) \div (2 * baseline)

\* One row of chartData: the date and the cells written into the row object.
\* point[symbol] is written for each ticker of tickerMaps, then point['SPY'].
Point(date, tm, bp, bmap, bb) ==
    LET tk == {s \in DOMAIN tm : MapGet(tm[s], date) # 0 /\ MapGet(bp, s) # 0}
        hasBench == MapGet(bmap, date) # 0 /\ bb # 0
        keys == tk \cup (IF hasBench THEN {BenchmarkKey} ELSE {})
    IN  [date |-> date,
         cells |-> [k \in keys |->
                      IF k = BenchmarkKey /\ hasBench
                      THEN Indexed(MapGet(bmap, date), bb)
                      ELSE Indexed(MapGet(tm[k], date), bp[k])]]

NoChart ==
    [startDate |-> NoDate, baselinePrices |-> EmptyMap, benchmarkBaseline |-> 0,
     chartData |-> <<>>, mentionMarkers |-> <<>>]

ChartMemo(ts, bm, vis, tr, nw) ==
    IF Len(ts) = 0 THEN NoChart
    ELSE
    LET sd == getStartDate(tr, ts, nw)
        sm == (tr = "SINCE_MENTION")
        dates == SortedDates(ts, bm, vis, sd)
        tm == TickerMaps(ts, vis)
        bp == BaselinePrices(ts, vis, sm, sd)
        bb == BenchmarkBaseline(bm, sd)
    IN  IF Len(dates) = 0 THEN [NoChart EXCEPT !.startDate = sd]
        ELSE [startDate |-> sd,
              baselinePrices |-> bp,
              benchmarkBaseline |-> bb,
              chartData |-> [i \in 1..Len(dates) |->
                                Point(dates[i], tm, bp, PriceMap(bm), bb)],
              mentionMarkers |-> Markers(ts, vis, sm, sd)]

----------------------------------------------------------------------------
(* MultiTickerChart: second useMemo (performances) *)

\* firstPoint[symbol] as number | undefined, 0 for undefined
Cell(row, k) == MapGet(row.cells, k)

\* visibleTickers.forEach: one entry per symbol whose start and end are truthy
RECURSIVE TickerPerfs(_, _, _)
TickerPerfs(ss, first, last) ==
    IF ss = <<>> THEN <<>>
    ELSE (IF Cell(first, Head(ss)) # 0 /\ Cell(last, Head(ss)) # 0
          THEN <<[symbol |-> Head(ss),
                  perf |-> Cell(last, Head(ss)) - Cell(first, Head(ss))]>>
          ELSE <<>>)
         \o TickerPerfs(Tail(ss), first, last)

SpyPerfs(first, last) ==
    IF Cell(first, BenchmarkKey) # 0 /\ Cell(last, BenchmarkKey) # 0
    THEN <<[symbol |-> BenchmarkKey,
            perf |-> Cell(last, BenchmarkKey) - Cell(first, BenchmarkKey)]>>
    ELSE <<>>

\* perfs.sort((a, b) => b.perf - a.perf): stable, descending by perf
RECURSIVE InsertDesc(_, _)
InsertDesc(sorted, e) ==
    IF sorted = <<>> THEN <<e>>
    ELSE IF Head(sorted).perf >= e.perf
         THEN <<Head(sorted)>> \o InsertDesc(Tail(sorted), e)
         ELSE <<e>> \o sorted

RECURSIVE SortDesc(_)
SortDesc(ps) ==
    IF ps = <<>> THEN <<>>
    ELSE InsertDesc(SortDesc(SubSeq(ps, 1, Len(ps) - 1)), ps[Len(ps)])

\* Mutant: the perfs array is kept between evaluations instead of being a
\* local of the hook, so each evaluation pushes onto the previous entries.
PerformancesSharedPerfs(cd, vis) ==
    IF Len(cd) < 2 THEN <<>>
    ELSE SortDesc(
            performances
            \o TickerPerfs(SelectSeq(SymbolSeq, LAMBDA s : s \in vis), cd[1], cd[Len(cd)])
            \o SpyPerfs(cd[1], cd[Len(cd)]))

\* Mutant: no minimum of two rows; a single row is both first and last.
PerformancesNoMinRows(cd, vis) ==
    SortDesc(
        TickerPerfs(SelectSeq(SymbolSeq, LAMBDA s : s \in vis), cd[1], cd[Len(cd)])
        \o SpyPerfs(cd[1], cd[Len(cd)]))

Performances(cd, vis) ==
    IF Len(cd) < 2 THEN <<>>
    ELSE SortDesc(
            TickerPerfs(SelectSeq(SymbolSeq, LAMBDA s : s \in vis), cd[1], cd[Len(cd)])
            \o SpyPerfs(cd[1], cd[Len(cd)]))

\* Mutant: the chart is drawn whatever the rows are.
ViewOfAlwaysChart(cd) == "chart"

\* if (chartData.length === 0) return the "No data to display" container
ViewOf(cd) == IF Len(cd) = 0 THEN "nodata" ELSE "chart"

----------------------------------------------------------------------------
(* PriceChart *)

\* One row of PriceChart's chartData.  The object literal writes [symbol],
\* then SPY (null is 0), then rawPrice; a later key replaces an equal earlier one.
PricePoint(sym, point, mp, bmap, mb) ==
    LET benchClose == MapGet(bmap, point.date)
        indexedBenchmark == IF benchClose # 0 /\ mb # 0
                            THEN Indexed(benchClose, mb) ELSE 0
    IN  [date |-> point.date,
         cells |-> [k \in {sym, BenchmarkKey, "rawPrice"} |->
                      IF k = "rawPrice" THEN point.close
                      ELSE IF k = BenchmarkKey THEN indexedBenchmark
                      ELSE Indexed(point.close, mp)]]

PriceChartData(sym, ph, bh, md) ==
    IF Len(ph) = 0 THEN <<>>
    ELSE
    LET mentionPrice == FindCloseFrom(ph, md)
        mentionBenchmark == FindCloseFrom(bh, md)
        filteredPrices == FilterFrom(ph, md)
        benchmarkMap == PriceMap(FilterFrom(bh, md))
    IN  IF mentionPrice = 0 THEN <<>>
        ELSE [i \in 1..Len(filteredPrices) |->
                PricePoint(sym, filteredPrices[i], mentionPrice,
                           benchmarkMap, mentionBenchmark)]

\* latestData?.[key] ? latestData[key] - 100 : 0
PerfSince(cd, key) ==
    IF Len(cd) > 0 /\ Cell(cd[Len(cd)], key) # 0
    THEN Cell(cd[Len(cd)], key) - 10000
    ELSE 0

----------------------------------------------------------------------------
(* lib/db: the store behind the API routes, in memory or on Postgres *)

MaxToday == 2
MaxBatch == 2
MaxRequests == 2

Backends == {"memory", "postgres"}

\* process.env.ICARUS_API_KEY is a string or undefined (Unset).
Unset == "<unset>"
ApiKeys == {Unset, "k1"}

ReqIds == {1, 2}

\* A ticker record; NoTicker stands for a symbol with no record.
NoTicker == [exists |-> FALSE, mention_date |-> 0, archived |-> FALSE]

\* Yahoo Finance's daily close of a date is a fact of that date.
CloseOn(d) == d + 1
PointOn(d) == [date |-> d, close |-> CloseOn(d)]

\* What getHistoricalPrices can return on day td: up to MaxBatch points of the
\* dates up to td, in any order, a date possibly more than once.
Batches(td) ==
    UNION {[1..n -> {PointOn(d) : d \in 1..td}] : n \in 0..MaxBatch}

\* symbol.toUpperCase()
RequestSymbols == {"a", "A", BenchmarkKey}
toUpperCase(sym) == IF sym = "a" THEN "A" ELSE sym

\* [...].sort((a, b) => a.date.localeCompare(b.date)) and ORDER BY date ASC
RECURSIVE InsertByDate(_, _)
InsertByDate(sorted, p) ==
    IF sorted = <<>> THEN <<p>>
    ELSE IF Head(sorted).date <= p.date
         THEN <<Head(sorted)>> \o InsertByDate(Tail(sorted), p)
         ELSE <<p>> \o sorted

RECURSIVE SortByDate(_)
SortByDate(ps) ==
    IF ps = <<>> THEN <<>>
    ELSE InsertByDate(SortByDate(SubSeq(ps, 1, Len(ps) - 1)), ps[Len(ps)])

\* In-memory store: the batch is filtered against the dates stored before the
\* call, appended and the whole array sorted by date.
MemoryAdd(existing, prices) ==
    SortByDate(existing \o SelectSeq(prices, LAMBDA p : p.date \notin DatesOf(existing)))

\* Postgres: one INSERT ... ON CONFLICT (symbol, date) DO NOTHING per point.
RECURSIVE PostgresAdd(_, _)
PostgresAdd(rows, prices) ==
    IF prices = <<>> THEN rows
    ELSE PostgresAdd(
            IF Head(prices).date \in DatesOf(rows) THEN rows
            ELSE Append(rows, Head(prices)),
            Tail(prices))

addPriceHistory(be, stored, prices) ==
    IF be = "memory" THEN MemoryAdd(stored, prices) ELSE PostgresAdd(stored, prices)

addBenchmarkHistory(be, stored, prices) ==
    IF be = "memory" THEN MemoryAdd(stored, prices) ELSE PostgresAdd(stored, prices)

\* without date arguments: the stored array, or SELECT ... ORDER BY date ASC
getPriceHistory(be, stored) == IF be = "memory" THEN stored ELSE SortByDate(stored)

getBenchmarkHistory(be, stored) == IF be = "memory" THEN stored ELSE SortByDate(stored)

\* tickers.has(symbol)
tickerExists(table, sym) == table[sym].exists

\* Postgres: symbol TEXT UNIQUE makes the INSERT of a stored symbol throw.
AddTickerThrows(be, table, sym) == be = "postgres" /\ table[sym].exists

\* tickers.set(symbol, newTicker) / INSERT INTO tickers
addTicker(table, sym, md) ==
    [table EXCEPT ![sym] = [exists |-> TRUE, mention_date |-> md, archived |-> FALSE]]

archiveTicker(table, sym) == [table EXCEPT ![sym].archived = TRUE]

restoreTicker(table, sym) == [table EXCEPT ![sym].archived = FALSE]

\* getAllTickers(): the symbols of the tickers that are not archived
getAllTickers(table) == {sym \in DOMAIN table : table[sym].exists /\ ~table[sym].archived}

(* Request headers *)

\* An Authorization header is its first seven characters and the rest;
\* NoHeader is the absent header (headers.get returns null).
NoHeader == [prefix |-> "", token |-> ""]
Bearer(token) == [prefix |-> "Bearer ", token |-> token]
Headers ==
    {NoHeader, Bearer("k1"), Bearer("k2"), Bearer("undefined"),
     [prefix |-> "Basic k", token |-> "1"]}

\* Mutant: any Bearer token is accepted.
checkAuthAnyBearer(h, key) == h # NoHeader /\ h.prefix = "Bearer "

\* authHeader.startsWith('Bearer ') && authHeader.substring(7) === API_KEY
checkAuth(h, key) ==
    /\ h # NoHeader
    /\ h.prefix = "Bearer "
    /\ key # Unset
    /\ h.token = key

\* `Bearer ${API_KEY}`: an undefined key is interpolated as "undefined"
BearerTemplate(key) == Bearer(IF key = Unset THEN "undefined" ELSE key)

\* GET /api/refresh: !(!vercelCron && cronSecret !== `Bearer ${API_KEY}`)
cronAllowed(h, cron, key) == cron \/ h = BearerTemplate(key)

\* The results of a refresh: the `added` number reported for each symbol and
\* for the benchmark, and the total of the message.
NoResults == [added |-> [sym \in Symbols |-> 0], benchmark |-> 0, totalAdded |-> 0]

NoResponse ==
    [endpoint |-> "none", header |-> NoHeader, cron |-> FALSE, status |-> 0,
     results |-> NoResults]

\* A POST /api/tickers invocation: where it is suspended, its upperSymbol,
\* the mention_date of its local `ticker` (0 before addTicker returned) and
\* the status it answered (0 before).
IdleReq == [stage |-> "idle", symbol |-> "A", ticker |-> 0, status |-> 0]

InitStore ==
    /\ backend \in Backends
    /\ apiKey \in ApiKeys
    /\ today = 1
    /\ tickerTable = [sym \in Symbols |-> NoTicker]
    /\ priceTable = [sym \in Symbols |-> <<>>]
    /\ benchmarkTable = <<>>
    /\ reqs = [r \in ReqIds |-> IdleReq]
    /\ served = 0
    /\ lastRequest = NoResponse

\* The chart components run in the browser and do not touch the store.
StoreIdle == InitStore /\ backend = "postgres" /\ apiKey = "k1"

----------------------------------------------------------------------------
(* Specification of MultiTickerChart *)

InitOutputs ==
    /\ pc = "props"
    /\ startDate = NoDate
    /\ baselinePrices = EmptyMap
    /\ benchmarkBaseline = 0
    /\ chartData = <<>>
    /\ mentionMarkers = <<>>
    /\ performances = <<>>
    /\ view = "none"
    /\ tickerPerf = 0
    /\ spyPerf = 0
    /\ alpha = 0

\* Props of MultiTickerChart: any supplied tickers, benchmark, visible set
\* and time range, with at most MaxPoints price points in all.
InitMultiTickerChart ==
    /\ component = "MultiTickerChart"
    /\ \E S \in SUBSET Symbols :
       \E hs \in [S -> Histories], bm \in Histories :
        /\ Len(bm) + PointCount(TickersOf(S, [s \in S |-> 1], hs)) <= MaxPoints
        /\ \E md \in [S -> Dates] :
            /\ tickers = TickersOf(S, md, hs)
            /\ benchmark = bm
            /\ visibleTickers \in SUBSET S
    /\ timeRange \in TimeRanges
    /\ now \in Nows

\* Props of PriceChart: one ticker (tickers[1] holds symbol, mentionDate and
\* priceHistory) and the benchmark history.  visibleTickers and timeRange are
\* no props of it and keep the useState defaults of app/page.tsx.
InitPriceChart ==
    /\ component = "PriceChart"
    /\ \E s \in Symbols, md \in Dates, h \in Histories :
        tickers = <<[symbol |-> s, mentionDate |-> md, priceHistory |-> h]>>
    /\ benchmark \in Histories
    /\ visibleTickers = {}
    /\ timeRange = "1Y"
    /\ now \in Nows

\* The scenario of the specification: A mentioned on the first date with
\* closes 100.0, 105.0, 110.0 and benchmark closes 500.0, 502.5, 510.0.
ScenarioDates == <<1, 2, 3>>
ScenarioCloses == <<10000, 10500, 11000>>
ScenarioBenchmark == <<50000, 50250, 51000>>
ScenarioHistory(closes) ==
    [i \in 1..3 |-> [date |-> ScenarioDates[i], close |-> closes[i]]]
ScenarioTickers ==
    <<[symbol |-> "A", mentionDate |-> 1,
       priceHistory |-> ScenarioHistory(ScenarioCloses)]>>

InitScenario ==
    /\ component \in {"MultiTickerChart", "PriceChart"}
    /\ tickers = ScenarioTickers
    /\ benchmark = ScenarioHistory(ScenarioBenchmark)
    /\ visibleTickers = IF component = "MultiTickerChart" THEN {"A"} ELSE {}
    /\ timeRange = IF component = "MultiTickerChart" THEN "SINCE_MENTION" ELSE "1Y"
    /\ now \in Nows

Init ==
    /\ InitScenario \/ InitPriceChart \/ InitMultiTickerChart
    /\ InitOutputs
    /\ StoreIdle

props == <<tickers, benchmark, visibleTickers, timeRange, now, component>>

\* One call of MultiTickerChart: both useMemo hooks and the early return
\* between them (the no-data view is returned before performances is computed).
Evaluate(nw) ==
    LET r == ChartMemo(tickers, benchmark, visibleTickers, timeRange, nw)
    IN  /\ startDate' = r.startDate
        /\ baselinePrices' = r.baselinePrices
        /\ benchmarkBaseline' = r.benchmarkBaseline
        /\ chartData' = r.chartData
        /\ mentionMarkers' = r.mentionMarkers
        /\ view' = ViewOf(r.chartData)
        /\ performances' = IF Len(r.chartData) = 0 THEN <<>>
                           ELSE Performances(r.chartData, visibleTickers)

Render ==
    /\ pc = "props"
    /\ component = "MultiTickerChart"
    /\ Evaluate(now)
    /\ pc' = "MultiTickerChart"
    /\ UNCHANGED <<props, tickerPerf, spyPerf, alpha>>
    /\ UNCHANGED storeVars

\* One call of PriceChart (components/PriceChart.tsx): the performance is
\* computed after the early return for an empty chart.
RenderPriceChart ==
    /\ pc = "props"
    /\ component = "PriceChart"
    /\ LET t == tickers[1]
           cd == PriceChartData(t.symbol, t.priceHistory, benchmark, t.mentionDate)
       IN  /\ chartData' = cd
           /\ view' = IF Len(cd) = 0 THEN "nodata" ELSE "chart"
           /\ tickerPerf' = IF Len(cd) = 0 THEN 0 ELSE PerfSince(cd, t.symbol)
           /\ spyPerf' = IF Len(cd) = 0 THEN 0 ELSE PerfSince(cd, BenchmarkKey)
           /\ alpha' = IF Len(cd) = 0 THEN 0
                       ELSE PerfSince(cd, t.symbol) - PerfSince(cd, BenchmarkKey)
    /\ pc' = "PriceChart"
    /\ UNCHANGED <<props, startDate, baselinePrices, benchmarkBaseline,
                   mentionMarkers, performances>>
    /\ UNCHANGED storeVars

\* One call of the PriceChart variant with the mention marker: the
\* performance is computed inside the useMemo, zeros on its early returns.
RenderPriceChartMarker ==
    /\ pc = "props"
    /\ component = "PriceChart"
    /\ LET t == tickers[1]
           cd == PriceChartData(t.symbol, t.priceHistory, benchmark, t.mentionDate)
       IN  /\ chartData' = cd
           /\ view' = IF Len(cd) = 0 THEN "nodata" ELSE "chart"
           /\ tickerPerf' = PerfSince(cd, t.symbol)
           /\ spyPerf' = PerfSince(cd, BenchmarkKey)
           /\ alpha' = PerfSince(cd, t.symbol) - PerfSince(cd, BenchmarkKey)
    /\ pc' = "PriceChartMarker"
    /\ UNCHANGED <<props, startDate, baselinePrices, benchmarkBaseline,
                   mentionMarkers, performances>>
    /\ UNCHANGED storeVars

Next == Render \/ RenderPriceChart \/ RenderPriceChartMarker

Spec == Init /\ [][Next]_vars

----------------------------------------------------------------------------
(* Specification of getStartDate applied on its own *)

InitStartDate ==
    /\ component = "MultiTickerChart"
    /\ \E S \in SUBSET Symbols :
       \E md \in [S -> Dates], hs \in [S -> {h \in Histories : Len(h) <= 1}] :
        /\ tickers = TickersOf(S, md, hs)
        /\ visibleTickers \in SUBSET S
    /\ benchmark = <<>>
    /\ timeRange \in TimeRanges
    /\ now \in {MaxDate, MaxDate + 1}
    /\ InitOutputs
    /\ StoreIdle

CallGetStartDate ==
    /\ pc = "props"
    /\ startDate' = getStartDate(timeRange, tickers, now)
    /\ pc' = "getStartDate"
    /\ UNCHANGED <<props, baselinePrices, benchmarkBaseline, chartData,
                   mentionMarkers, performances, view, tickerPerf, spyPerf, alpha>>
    /\ UNCHANGED storeVars

NextStartDate == CallGetStartDate

SpecStartDate == InitStartDate /\ [][NextStartDate]_vars

----------------------------------------------------------------------------
(* Specification of MultiTickerChart evaluated twice on the same props *)

InitTwice ==
    /\ component = "MultiTickerChart"
    /\ \E S \in SUBSET Symbols :
       \E hs \in [S -> Histories], bm \in Histories :
        /\ Len(bm) + PointCount(TickersOf(S, [s \in S |-> 1], hs)) < MaxPoints
        /\ \E md \in [S -> Dates] :
            /\ tickers = TickersOf(S, md, hs)
            /\ benchmark = bm
            /\ visibleTickers \in SUBSET S
    /\ timeRange \in TimeRanges
    /\ now \in Nows
    /\ InitOutputs
    /\ StoreIdle

\* A second call of MultiTickerChart with the same props.  getStartDate reads
\* new Date() again: the current date is the same or has moved on.
ReRender ==
    /\ pc = "MultiTickerChart"
    /\ \E nw \in {now, now + 1} :
        /\ now' = nw
        /\ Evaluate(nw)
    /\ pc' = "MultiTickerChartAgain"
    /\ UNCHANGED <<tickers, benchmark, visibleTickers, timeRange, component,
                   tickerPerf, spyPerf, alpha>>
    /\ UNCHANGED storeVars

NextTwice == Render \/ ReRender

SpecTwice == InitTwice /\ [][NextTwice]_vars

----------------------------------------------------------------------------
(* Specification of the API routes over the store *)

\* No chart is rendered while the routes are exercised.
ChartIdle ==
    /\ component = "none"
    /\ tickers = <<>>
    /\ benchmark = <<>>
    /\ visibleTickers = {}
    /\ timeRange = "1Y"
    /\ now = 1
    /\ InitOutputs

InitApi == ChartIdle /\ InitStore

tables == <<tickerTable, priceTable, benchmarkTable>>

\* A database call can fail on Postgres; the in-memory store never throws.
Failures == IF backend = "postgres" THEN {FALSE, TRUE} ELSE {FALSE}

ReceiveWith(endpoint, h, cron, status, results) ==
    /\ served < MaxRequests
    /\ served' = served + 1
    /\ lastRequest' = [endpoint |-> endpoint, header |-> h, cron |-> cron,
                       status |-> status, results |-> results]

Receive(endpoint, h, cron, status) ==
    ReceiveWith(endpoint, h, cron, status, NoResults)

Answer(r, status) ==
    reqs' = [reqs EXCEPT ![r].stage = "idle", ![r].status = status]

\* The server's date moves on.
Tick ==
    /\ today < MaxToday
    /\ today' = today + 1
    /\ UNCHANGED <<backend, apiKey, tables, reqs, served, lastRequest, chartVars>>

\* POST /api/tickers up to its first await on Yahoo Finance: checkAuth, the
\* symbol, tickerExists.  Status 0 is a request suspended at the await.  The
\* request is tracked in the first free slot of reqs.
PostTickers(r, symbol, h) ==
    /\ reqs[r].stage = "idle"
    /\ \A q \in ReqIds : q < r => reqs[q].stage # "idle"
    /\ LET upperSymbol == toUpperCase(symbol)
           status == IF ~checkAuth(h, apiKey) THEN 401
                     ELSE IF tickerExists(tickerTable, upperSymbol) THEN 409
                     ELSE 0
       IN  /\ Receive("POST /api/tickers", h, FALSE, status)
           /\ reqs' = [reqs EXCEPT ![r] =
                         [stage |-> IF status = 0 THEN "checked" ELSE "idle",
                          symbol |-> upperSymbol, ticker |-> 0,
                          status |-> status]]
    /\ UNCHANGED <<backend, apiKey, today, tables, chartVars>>

\* POST /api/tickers resumed with getStockInfo's result: 404 when Yahoo does
\* not know the symbol, else addTicker with today's date as mention_date.
PostTickersAdd(r) ==
    /\ reqs[r].stage = "checked"
    /\ \/ /\ Answer(r, 404)
          /\ UNCHANGED tickerTable
       \/ /\ AddTickerThrows(backend, tickerTable, reqs[r].symbol)
          /\ Answer(r, 500)
          /\ UNCHANGED tickerTable
       \/ /\ ~AddTickerThrows(backend, tickerTable, reqs[r].symbol)
          /\ tickerTable' = addTicker(tickerTable, reqs[r].symbol, today)
          /\ reqs' = [reqs EXCEPT ![r].stage = "added", ![r].ticker = today]
    /\ UNCHANGED <<backend, apiKey, today, priceTable, benchmarkTable, served,
                   lastRequest, chartVars>>

\* POST /api/tickers resumed with the historical prices: addPriceHistory, the
\* benchmark when none is stored, 201; 500 when a database call throws.
PostTickersHistory(r) ==
    /\ reqs[r].stage = "added"
    /\ \E historicalPrices \in Batches(today), spyPrices \in Batches(today),
          fails \in Failures :
        IF fails
        THEN /\ Answer(r, 500)
             /\ UNCHANGED <<priceTable, benchmarkTable>>
        ELSE /\ priceTable' =
                  IF Len(historicalPrices) > 0
                  THEN [priceTable EXCEPT ![reqs[r].symbol] =
                          addPriceHistory(backend, @, historicalPrices)]
                  ELSE priceTable
             /\ benchmarkTable' =
                  IF Len(getBenchmarkHistory(backend, benchmarkTable)) = 0
                     /\ Len(spyPrices) > 0
                  THEN addBenchmarkHistory(backend, benchmarkTable, spyPrices)
                  ELSE benchmarkTable
             /\ Answer(r, 201)
    /\ UNCHANGED <<backend, apiKey, today, tickerTable, served, lastRequest,
                   chartVars>>

\* DELETE /api/tickers/:symbol
DeleteTicker(symbol, h) ==
    /\ \E fails \in Failures :
        LET upperSymbol == toUpperCase(symbol)
            status == IF ~checkAuth(h, apiKey) THEN 401
                      ELSE IF fails THEN 500
                      ELSE IF ~tickerTable[upperSymbol].exists THEN 404
                      ELSE 200
        IN  /\ Receive("DELETE /api/tickers/:symbol", h, FALSE, status)
            /\ tickerTable' = IF status = 200
                              THEN archiveTicker(tickerTable, upperSymbol)
                              ELSE tickerTable
    /\ UNCHANGED <<backend, apiKey, today, priceTable, benchmarkTable, reqs,
                   chartVars>>

\* POST /api/tickers/:symbol/restore
PostRestore(symbol, h) ==
    /\ \E fails \in Failures :
        LET upperSymbol == toUpperCase(symbol)
            status == IF ~checkAuth(h, apiKey) THEN 401
                      ELSE IF fails THEN 500
                      ELSE IF ~tickerTable[upperSymbol].exists THEN 404
                      ELSE 200
        IN  /\ Receive("POST /api/tickers/:symbol/restore", h, FALSE, status)
            /\ tickerTable' = IF status = 200
                              THEN restoreTicker(tickerTable, upperSymbol)
                              ELSE tickerTable
    /\ UNCHANGED <<backend, apiKey, today, priceTable, benchmarkTable, reqs,
                   chartVars>>

\* results.push({ symbol, added: prices.length }) for each ticker and for the
\* benchmark; totalAdded = results.reduce((sum, r) => sum + r.added, 0)
RECURSIVE SumAdded(_, _)
SumAdded(added, syms) ==
    IF syms = {} THEN 0
    ELSE LET sym == CHOOSE x \in syms : TRUE
         IN  added[sym] + SumAdded(added, syms \ {sym})

RefreshResults(prices, spyPrices) ==
    LET added == [sym \in Symbols |->
                    IF sym \in DOMAIN prices THEN Len(prices[sym]) ELSE 0]
    IN  [added |-> added,
         benchmark |-> Len(spyPrices),
         totalAdded |-> SumAdded(added, Symbols) + Len(spyPrices)]

\* The body of POST /api/refresh: checkAuth, then the prices of every ticker
\* that is not archived and the benchmark's are fetched and added.
Refresh(endpoint, h, cron) ==
    IF ~checkAuth(h, apiKey)
    THEN /\ Receive(endpoint, h, cron, 401)
         /\ UNCHANGED <<priceTable, benchmarkTable>>
    ELSE \E fails \in Failures :
         IF fails
         THEN /\ Receive(endpoint, h, cron, 500)
              /\ UNCHANGED <<priceTable, benchmarkTable>>
         ELSE \E prices \in [getAllTickers(tickerTable) -> Batches(today)],
                 spyPrices \in Batches(today) :
              /\ ReceiveWith(endpoint, h, cron, 200, RefreshResults(prices, spyPrices))
              /\ priceTable' =
                    [sym \in Symbols |->
                        IF sym \in getAllTickers(tickerTable) /\ Len(prices[sym]) > 0
                        THEN addPriceHistory(backend, priceTable[sym], prices[sym])
                        ELSE priceTable[sym]]
              /\ benchmarkTable' =
                    IF Len(spyPrices) > 0
                    THEN addBenchmarkHistory(backend, benchmarkTable, spyPrices)
                    ELSE benchmarkTable

\* POST /api/refresh
PostRefresh(h) ==
    /\ Refresh("POST /api/refresh", h, FALSE)
    /\ UNCHANGED <<backend, apiKey, today, tickerTable, reqs, chartVars>>

\* GET /api/refresh: its own check of the cron header or the key, then
\* POST(request) with the same request.
GetRefresh(h, cron) ==
    /\ IF ~cronAllowed(h, cron, apiKey)
       THEN /\ Receive("GET /api/refresh", h, cron, 401)
            /\ UNCHANGED <<priceTable, benchmarkTable>>
       ELSE Refresh("GET /api/refresh", h, cron)
    /\ UNCHANGED <<backend, apiKey, today, tickerTable, reqs, chartVars>>

\* GET /api/tickers (the handler takes no request, a query string such as
\* ?archived=true is not read) and GET /api/chart-data: the symbols returned.
GetTickers(query) == getAllTickers(tickerTable)

GetChartData == getAllTickers(tickerTable)

\* The archived page: fetch('/api/tickers?archived=true'), then
\* data.data.filter(t => t.archived)
fetchArchivedTickers ==
    {sym \in GetTickers("archived=true") : tickerTable[sym].archived}

NextApi ==
    \/ Tick
    \/ \E r \in ReqIds, symbol \in RequestSymbols, h \in Headers :
          PostTickers(r, symbol, h)
    \/ \E r \in ReqIds : PostTickersAdd(r)
    \/ \E r \in ReqIds : PostTickersHistory(r)
    \/ \E symbol \in RequestSymbols, h \in Headers : DeleteTicker(symbol, h)
    \/ \E symbol \in RequestSymbols, h \in Headers : PostRestore(symbol, h)
    \/ \E h \in Headers : PostRefresh(h)
    \/ \E h \in Headers, cron \in BOOLEAN : GetRefresh(h, cron)

SpecApi == InitApi /\ [][NextApi]_vars

----------------------------------------------------------------------------
(* Vocabulary of the claims *)

MultiRendered == pc = "MultiTickerChart"
PriceRendered == pc \in {"PriceChart", "PriceChartMarker"}
SinceMention == timeRange = "SINCE_MENTION"

\* The cutoff date of the window, as the code resolves it.
CutoffDate == getStartDate(timeRange, tickers, now)

MentionDates == {tickers[i].mentionDate : i \in DOMAIN tickers}
VisibleEntities == {i \in DOMAIN tickers : tickers[i].symbol \in visibleTickers}
HiddenEntities == DOMAIN tickers \ VisibleEntities

RowDates == {chartData[i].date : i \in DOMAIN chartData}
RowsWith(k) == {i \in DOMAIN chartData : k \in DOMAIN chartData[i].cells}
EarliestRowWith(k) ==
    CHOOSE i \in RowsWith(k) : \A j \in RowsWith(k) : chartData[i].date <= chartData[j].date
LatestRowWith(k) ==
    CHOOSE i \in RowsWith(k) : \A j \in RowsWith(k) : chartData[i].date >= chartData[j].date
PerfEntries(k) == {j \in DOMAIN performances : performances[j].symbol = k}

PointsFrom(h, d) == {i \in DOMAIN h : h[i].date >= d}
EarliestPointFrom(h, d) ==
    CHOOSE i \in PointsFrom(h, d) : \A j \in PointsFrom(h, d) : h[i].date <= h[j].date

\* n hundredths is close / base * 100 rounded to two decimals (half up).
IsIndexOf(n, close, base) ==
    /\ 2 * base * n <= close * 20000 + base
    /\ close * 20000 + base < 2 * base * (n + 1)

\* No supplied ticker bears the key the benchmark is stored under.  C3 and C5
\* are stated for such inputs, where every column is its series' own.
NoKeyClash == BenchmarkKey \notin SymbolsOf(tickers)

ResolvedBaselineDate(t) == IF SinceMention THEN t.mentionDate ELSE CutoffDate

----------------------------------------------------------------------------
(* C1 *)

\* C1: under SINCE_MENTION, for every visible entity that has a column, the
\* earliest row (by date) in which it has a value carries 100.00.  Stated for
\* the entities whose key is not the benchmark's, whose column is their own.
C1_FirstValueIs100 ==
    (MultiRendered /\ SinceMention) =>
        \A i \in VisibleEntities :
            LET k == tickers[i].symbol
            IN  (k # BenchmarkKey /\ RowsWith(k) # {})
                => chartData[EarliestRowWith(k)].cells[k] = 10000

----------------------------------------------------------------------------
(* C2 *)

UnionOfFilteredDates ==
    {d \in Dates :
        \/ \E i \in VisibleEntities : \E j \in DOMAIN tickers[i].priceHistory :
              tickers[i].priceHistory[j].date = d /\ d >= CutoffDate
        \/ \E j \in DOMAIN benchmark : benchmark[j].date = d /\ d >= CutoffDate}

\* C2 as stated: for every input, the empty entity list included, the row
\* dates are exactly the union of the dates >= cutoffDate of the visible
\* entities' histories and of the benchmark history.
C2_RowDatesAreUnion == MultiRendered => RowDates = UnionOfFilteredDates

\* C2 amended: with a non-empty entity list the row dates are exactly that
\* union; with an empty entity list the output has no rows, whatever the
\* benchmark holds.
C2_RowDatesAreUnionUnlessNoTickers ==
    MultiRendered =>
        /\ Len(tickers) > 0 => RowDates = UnionOfFilteredDates
        /\ Len(tickers) = 0 => chartData = <<>>

\* A chart whose rows come from both a visible entity and the benchmark,
\* with a date only the benchmark has and an entity point before the cutoff.
C2_Witness ==
    /\ MultiRendered
    /\ Len(chartData) >= 2
    /\ \E i \in VisibleEntities :
        /\ \E j \in DOMAIN tickers[i].priceHistory :
              tickers[i].priceHistory[j].date < CutoffDate
        /\ \E j \in DOMAIN tickers[i].priceHistory :
              tickers[i].priceHistory[j].date \in RowDates
        /\ \E d \in RowDates : d \notin DatesOf(tickers[i].priceHistory)

----------------------------------------------------------------------------
(* C3 *)

SeriesKeys == {tickers[i].symbol : i \in VisibleEntities} \cup {BenchmarkKey}

\* C3: every series with at least 2 valued rows has a performance entry whose
\* return is its last valued indexed value minus its own first valued one.
\* Stated for the inputs without a key clash.
C3_ReturnOverOwnValuedRows ==
    (MultiRendered /\ NoKeyClash) =>
        \A k \in SeriesKeys :
            Cardinality(RowsWith(k)) >= 2 =>
                \E j \in PerfEntries(k) :
                    performances[j].perf =
                        chartData[LatestRowWith(k)].cells[k]
                        - chartData[EarliestRowWith(k)].cells[k]

----------------------------------------------------------------------------
(* C4 *)

\* C4: a visible entity without a point on or after its resolved baseline
\* date has no key in any row and no entry in the performance summary.
C4_NoBaselineNoColumn ==
    MultiRendered =>
        \A i \in VisibleEntities :
            PointsFrom(tickers[i].priceHistory, ResolvedBaselineDate(tickers[i])) = {}
            => /\ RowsWith(tickers[i].symbol) = {}
               /\ PerfEntries(tickers[i].symbol) = {}

----------------------------------------------------------------------------
(* C5 *)

\* The benchmark points of PriceChart's window: from the mention date to the
\* date of the last row.
WindowBenchmark ==
    {i \in DOMAIN benchmark :
        /\ benchmark[i].date >= tickers[1].mentionDate
        /\ benchmark[i].date <= chartData[Len(chartData)].date}
FirstWindowBenchmark ==
    CHOOSE i \in WindowBenchmark :
        \A j \in WindowBenchmark : benchmark[i].date <= benchmark[j].date
LastWindowBenchmark ==
    CHOOSE i \in WindowBenchmark :
        \A j \in WindowBenchmark : benchmark[i].date >= benchmark[j].date

\* C5: when PriceChart reports the returns, and the benchmark has data in the
\* window, alpha is the entity's return minus the benchmark's real return over
\* the window (its last close in the window indexed to its first, minus 100).
\* Stated for the inputs without a key clash.
C5_AlphaUsesRealBenchmarkReturn ==
    (PriceRendered /\ view = "chart" /\ NoKeyClash /\ WindowBenchmark # {}) =>
        \E n \in 0..100000 :
            /\ IsIndexOf(n, benchmark[LastWindowBenchmark].close,
                            benchmark[FirstWindowBenchmark].close)
            /\ alpha = tickerPerf - (n - 10000)

----------------------------------------------------------------------------
(* C6 *)

\* C6: for every policy and every visible entity, the baseline price is the
\* close of the entity's earliest point dated on or after its baseline date,
\* and the entity has no baseline when there is no such point.
C6_BaselineIsFirstPointOnOrAfter ==
    (MultiRendered /\ view = "chart") =>
        \A i \in VisibleEntities :
            LET t == tickers[i]
                h == t.priceHistory
                d == ResolvedBaselineDate(t)
            IN  IF PointsFrom(h, d) = {}
                THEN t.symbol \notin DOMAIN baselinePrices
                ELSE /\ t.symbol \in DOMAIN baselinePrices
                     /\ baselinePrices[t.symbol] = h[EarliestPointFrom(h, d)].close

\* The scenario of C6: an entity whose first point is later than its mention
\* date takes that point's close as baseline, is indexed 100.00 there and is
\* absent on the earlier rows.
C6_Witness ==
    /\ MultiRendered
    /\ SinceMention
    /\ \E i \in VisibleEntities :
        LET t == tickers[i]
            h == t.priceHistory
        IN  /\ t.symbol # BenchmarkKey
            /\ Len(h) > 0
            /\ h[1].date > t.mentionDate
            /\ baselinePrices[t.symbol] = h[1].close
            /\ \E r \in DOMAIN chartData : chartData[r].date < h[1].date
            /\ \A r \in DOMAIN chartData :
                  chartData[r].date < h[1].date => t.symbol \notin DOMAIN chartData[r].cells
            /\ \E r \in DOMAIN chartData :
                  /\ chartData[r].date = h[1].date
                  /\ chartData[r].cells[t.symbol] = 10000

----------------------------------------------------------------------------
(* C7 *)

----------------------------------------------------------------------------
(* C8 *)

\* C8: under every policy the benchmark's baseline is the close of the
\* earliest benchmark point dated on or after the cutoff date (none when
\* there is no such point), whatever the entities' own mention dates.
C8_BenchmarkBaselineAtCutoff ==
    (MultiRendered /\ view = "chart") =>
        IF PointsFrom(benchmark, CutoffDate) = {}
        THEN benchmarkBaseline = 0
        ELSE benchmarkBaseline = benchmark[EarliestPointFrom(benchmark, CutoffDate)].close

\* SINCE_MENTION with a visible entity mentioned after the cutoff: the
\* benchmark is based on its first point after the cutoff, not on its close
\* at that entity's mention date.
C8_Witness ==
    /\ MultiRendered
    /\ SinceMention
    /\ benchmarkBaseline # 0
    /\ PointsFrom(benchmark, CutoffDate) # {}
    /\ benchmark[EarliestPointFrom(benchmark, CutoffDate)].date > CutoffDate
    /\ \E i \in VisibleEntities :
        /\ tickers[i].mentionDate > CutoffDate
        /\ PointsFrom(benchmark, tickers[i].mentionDate) # {}
        /\ benchmark[EarliestPointFrom(benchmark, tickers[i].mentionDate)].close
              # benchmarkBaseline

----------------------------------------------------------------------------
(* C9 *)

\* C9: an entity outside the visible set has no key in any row and no entry
\* in the performance summary.
C9_HiddenEntityHasNoColumn ==
    MultiRendered =>
        \A i \in HiddenEntities :
            /\ RowsWith(tickers[i].symbol) = {}
            /\ PerfEntries(tickers[i].symbol) = {}

----------------------------------------------------------------------------
(* C10 *)

IsScenario ==
    /\ tickers = ScenarioTickers
    /\ benchmark = ScenarioHistory(ScenarioBenchmark)

ScenarioRows ==
    [i \in 1..3 |->
        [date |-> ScenarioDates[i],
         cells |-> [k \in {"A", BenchmarkKey} |->
                      IF k = "A" THEN <<10000, 10500, 11000>>[i]
                      ELSE <<10000, 10050, 10200>>[i]]]]

\* C10: in the scenario, MultiTickerChart under SINCE_MENTION yields exactly
\* the three rows A = 100.00, 105.00, 110.00 and benchmark = 100.00, 100.50,
\* 102.00 and the returns 10.00 for A and 2.00 for the benchmark, which differ
\* by 8.00; PriceChart reports 10.00, 2.00 and alpha 8.00.
C10_Scenario ==
    IsScenario =>
        /\ MultiRendered =>
            /\ chartData = ScenarioRows
            /\ performances = <<[symbol |-> "A", perf |-> 1000],
                                [symbol |-> BenchmarkKey, perf |-> 200]>>
            /\ performances[1].perf - performances[2].perf = 800
        /\ PriceRendered =>
            /\ tickerPerf = 1000
            /\ spyPerf = 200
            /\ alpha = 800

C10_Witness ==
    /\ IsScenario
    /\ MultiRendered
    /\ SinceMention
    /\ Len(chartData) = 3
    /\ Len(performances) = 2

----------------------------------------------------------------------------
(* C11 *)

\* The raw history of the series shown under key k: the benchmark's for the
\* benchmark, the entity's own for a visible entity.
HasPointOn(h, d) == \E j \in DOMAIN h : h[j].date = d

\* C11: whenever a row of date d carries a value for a series, a visible
\* entity or the benchmark, that series' raw history has a point dated d.
C11_CellsComeFromOwnPoints ==
    MultiRendered =>
        \A r \in DOMAIN chartData :
            /\ \A i \in VisibleEntities :
                  tickers[i].symbol \in DOMAIN chartData[r].cells
                  => HasPointOn(tickers[i].priceHistory, chartData[r].date)
            /\ (BenchmarkKey \in DOMAIN chartData[r].cells /\ NoKeyClash)
                  => HasPointOn(benchmark, chartData[r].date)

----------------------------------------------------------------------------
(* C12 *)

\* C12: the rows are in strictly ascending date order, so no date appears in
\* two rows.
C12_RowsStrictlyAscending ==
    MultiRendered =>
        \A i, j \in DOMAIN chartData :
            i < j => chartData[i].date < chartData[j].date

\* A chart where a visible entity and the benchmark share a date and the
\* benchmark also has an earlier date than any point of the entity.
C12_Witness ==
    /\ MultiRendered
    /\ Len(chartData) >= 2
    /\ \E i \in VisibleEntities :
        /\ \E d \in RowDates :
              /\ HasPointOn(tickers[i].priceHistory, d)
              /\ HasPointOn(benchmark, d)
        /\ \E d \in RowDates :
              /\ HasPointOn(benchmark, d)
              /\ \A j \in DOMAIN tickers[i].priceHistory :
                    tickers[i].priceHistory[j].date > d

----------------------------------------------------------------------------
(* C13 *)

\* C13: every entry of the performance summary belongs to a series with at
\* least two valued rows; a series with fewer has no entry.
C13_FewerThanTwoRowsNoEntry ==
    MultiRendered =>
        \A k \in SeriesKeys :
            Cardinality(RowsWith(k)) < 2 => PerfEntries(k) = {}

\* A chart of a single row that carries a visible entity's value, and a chart
\* of several rows where a series is valued in exactly one of them: neither
\* series is reported.
C13_Witness ==
    /\ MultiRendered
    /\ view = "chart"
    /\ \E k \in SeriesKeys :
        /\ Cardinality(RowsWith(k)) = 1
        /\ PerfEntries(k) = {}
        /\ Len(chartData) = 1

----------------------------------------------------------------------------
(* C17 *)

----------------------------------------------------------------------------
(* C20 *)

\* C20: for ALL and SINCE_MENTION with at least one visible ticker,
\* getStartDate returns the earliest mention date among the visible tickers.
C20_StartDateFromVisibleOnly ==
    (pc = "getStartDate" /\ timeRange \in {"ALL", "SINCE_MENTION"}
        /\ VisibleEntities # {})
    => startDate = Min({tickers[i].mentionDate : i \in VisibleEntities})

----------------------------------------------------------------------------
(* C16 *)

----------------------------------------------------------------------------
(* C14 *)

OnePointPerDate(h) == \A i, j \in DOMAIN h : h[i].date = h[j].date => i = j
AscendingByDate(h) == \A i, j \in DOMAIN h : i < j => h[i].date <= h[j].date

\* C14: after any sequence of addPriceHistory / addBenchmarkHistory calls the
\* stored history of each symbol, and the benchmark's, holds at most one point
\* per date, and getPriceHistory / getBenchmarkHistory return it in ascending
\* date order.
C14_StoredHistoryOnePerDateSorted ==
    /\ \A sym \in Symbols :
        /\ OnePointPerDate(priceTable[sym])
        /\ AscendingByDate(getPriceHistory(backend, priceTable[sym]))
    /\ OnePointPerDate(benchmarkTable)
    /\ AscendingByDate(getBenchmarkHistory(backend, benchmarkTable))

----------------------------------------------------------------------------
(* C15 *)

\* C15: once a ticker record exists, no step of any route changes its
\* mention_date or removes the record.
C15_MentionDateNeverChanges ==
    [][\A sym \in Symbols :
        tickerTable[sym].exists
        => /\ tickerTable'[sym].exists
           /\ tickerTable'[sym].mention_date = tickerTable[sym].mention_date]_vars

----------------------------------------------------------------------------
(* C18 *)

\* C18: a GET /api/refresh request with the x-vercel-cron header and no
\* Authorization header is not answered 401.
C18_CronRequestAccepted ==
    (lastRequest.endpoint = "GET /api/refresh" /\ lastRequest.cron
        /\ lastRequest.header = NoHeader)
    => lastRequest.status # 401

----------------------------------------------------------------------------
(* C19 *)

MutatingEndpoints ==
    {"POST /api/tickers", "DELETE /api/tickers/:symbol",
     "POST /api/tickers/:symbol/restore", "POST /api/refresh"}

\* The header is exactly 'Bearer ' followed by the configured key.
ExactlyBearerKey(h) == apiKey # Unset /\ h = Bearer(apiKey)

\* C19: a request to a mutating endpoint whose Authorization header is not
\* exactly 'Bearer ' + the configured key, or any such request when no key is
\* configured, is answered 401, changes no table and leaves no request
\* suspended that could change one later.
C19_MutationsNeedTheKey ==
    [][(served' = served + 1
        /\ lastRequest'.endpoint \in MutatingEndpoints
        /\ ~ExactlyBearerKey(lastRequest'.header))
       => /\ lastRequest'.status = 401
          /\ tickerTable' = tickerTable
          /\ priceTable' = priceTable
          /\ benchmarkTable' = benchmarkTable
          /\ \A r \in ReqIds : reqs'[r].stage # "idle" => reqs'[r] = reqs[r]]_vars

\* A request with a wrong Bearer token is answered 401 by a server that has a
\* key configured and a ticker with price history stored.
C19_Witness ==
    /\ apiKey = "k1"
    /\ lastRequest.endpoint \in MutatingEndpoints
    /\ lastRequest.header = Bearer("k2")
    /\ lastRequest.status = 401
    /\ \E sym \in Symbols :
        tickerTable[sym].exists /\ priceTable[sym] # <<>>

----------------------------------------------------------------------------
(* C21 *)

\* C21: under the shared-baseline ranges (every range but SINCE_MENTION) the
\* earliest valued row of every visible entity's column carries 100.00.
C21_SharedBaselineStartsAt100 ==
    (MultiRendered /\ ~SinceMention) =>
        \A i \in VisibleEntities :
            LET k == tickers[i].symbol
            IN  RowsWith(k) # {} => chartData[EarliestRowWith(k)].cells[k] = 10000

\* A shared-baseline chart of an entity mentioned after the start of the
\* period, with a point before the period: its column starts at 100.00 on the
\* first row and moves away from it later.
C21_Witness ==
    /\ MultiRendered
    /\ ~SinceMention
    /\ \E i \in VisibleEntities :
        LET t == tickers[i]
            k == t.symbol
        IN  /\ k # BenchmarkKey
            /\ t.mentionDate > CutoffDate
            /\ Cardinality(RowsWith(k)) >= 2
            /\ chartData[EarliestRowWith(k)].cells[k] = 10000
            /\ chartData[LatestRowWith(k)].cells[k] # 10000
            /\ chartData[EarliestRowWith(k)].date < t.mentionDate

----------------------------------------------------------------------------
(* C22 *)

\* C22: in SINCE_MENTION mode there is one mention marker per visible ticker,
\* each marker's date is the date of a row, and the ticker's indexed value on
\* that row is 100.  Stated for the inputs without a key clash.
C22_MarkersSitOnRowsAt100 ==
    (MultiRendered /\ SinceMention /\ view = "chart" /\ NoKeyClash) =>
        /\ \A i \in VisibleEntities :
              Cardinality({m \in DOMAIN mentionMarkers :
                              mentionMarkers[m].symbol = tickers[i].symbol}) = 1
        /\ \A m \in DOMAIN mentionMarkers :
              \E r \in DOMAIN chartData :
                  /\ chartData[r].date = mentionMarkers[m].date
                  /\ mentionMarkers[m].symbol \in DOMAIN chartData[r].cells
                  /\ chartData[r].cells[mentionMarkers[m].symbol] = 10000

----------------------------------------------------------------------------
(* C25 *)

\* The indexed value of entity t on date d from its own close and baseline.
OwnIndexed(t, d) ==
    Indexed(MapGet(PriceMap(t.priceHistory), d),
            Baseline(t, SinceMention, startDate))

\* C25: for every visible entity, the value under its key in a row is its own
\* indexed value of that date, and the benchmark's value is under a key that
\* is no visible entity's key.
C25_EntityColumnIsItsOwn ==
    MultiRendered =>
        \A r \in DOMAIN chartData :
            /\ \A i \in VisibleEntities :
                  LET t == tickers[i]
                  IN  t.symbol \in DOMAIN chartData[r].cells
                      => /\ HasPointOn(t.priceHistory, chartData[r].date)
                         /\ Baseline(t, SinceMention, startDate) # 0
                         /\ chartData[r].cells[t.symbol] = OwnIndexed(t, chartData[r].date)
            /\ (HasPointOn(benchmark, chartData[r].date) /\ benchmarkBaseline # 0)
                  => BenchmarkKey \notin {tickers[i].symbol : i \in VisibleEntities}

----------------------------------------------------------------------------
(* C23 *)

RefreshEndpoints == {"POST /api/refresh", "GET /api/refresh"}

\* C23: in the response of a refresh, each symbol's `added`, the benchmark's
\* and the total of the message equal the number of price points the refresh
\* newly stored.
C23_AddedCountsNewlyStored ==
    [][(served' = served + 1
        /\ lastRequest'.endpoint \in RefreshEndpoints
        /\ lastRequest'.status = 200)
       => /\ \A sym \in Symbols :
                lastRequest'.results.added[sym]
                    = Len(priceTable'[sym]) - Len(priceTable[sym])
          /\ lastRequest'.results.benchmark
                = Len(benchmarkTable') - Len(benchmarkTable)
          /\ lastRequest'.results.totalAdded
                = SumAdded([sym \in Symbols |->
                              Len(priceTable'[sym]) - Len(priceTable[sym])], Symbols)
                  + Len(benchmarkTable') - Len(benchmarkTable)]_vars

----------------------------------------------------------------------------
(* C24 *)

\* C24: while a ticker is archived, GET /api/tickers?archived=true returns it
\* and the archived page lists it; the default ticker list and the chart data
\* do not contain it.
C24_ArchivedTickerIsListed ==
    \A sym \in Symbols :
        (tickerTable[sym].exists /\ tickerTable[sym].archived)
        => /\ sym \in GetTickers("archived=true")
           /\ sym \in fetchArchivedTickers
           /\ sym \notin GetTickers("")
           /\ sym \notin GetChartData

----------------------------------------------------------------------------
(* C26 *)

\* Both invocations of POST /api/tickers have answered, for the same symbol,
\* with 201, 409 or 500, and none failed after its addTicker had returned.
BothAnsweredSameSymbol ==
    /\ \A r \in ReqIds :
        /\ reqs[r].stage = "idle"
        /\ reqs[r].status \in {201, 409, 500}
        /\ ~(reqs[r].status = 500 /\ reqs[r].ticker # 0)
    /\ \A r, q \in ReqIds : reqs[r].symbol = reqs[q].symbol

\* C26: of two authorized POST /api/tickers requests for the same symbol,
\* interleaved in any way, exactly one answers 201 and the other 409, and the
\* store holds one record for the symbol with the mention_date written by the
\* request that answered 201.
C26_OneCreatedOthersConflict ==
    BothAnsweredSameSymbol =>
        \E r \in ReqIds :
            /\ reqs[r].status = 201
            /\ \A q \in ReqIds \ {r} : reqs[q].status = 409
            /\ tickerTable[reqs[r].symbol].exists
            /\ tickerTable[reqs[r].symbol].mention_date = reqs[r].ticker

----------------------------------------------------------------------------
(* C27 *)

\* C27: a POST /api/tickers request that answers 404 or 500 leaves no ticker
\* record of its own in the table.
C27_FailedAddLeavesNoTicker ==
    [][\A r \in ReqIds :
        (reqs[r].stage # "idle" /\ reqs'[r].stage = "idle"
            /\ reqs'[r].status \in {404, 500})
        => \/ reqs'[r].ticker = 0
           \/ ~tickerExists(tickerTable', reqs'[r].symbol)]_vars

====
